---------------------------- MODULE Spec2Model ----------------------------
(***************************************************************************)
(* Model of the WACC module (src/wacc_module.py) and of the two button     *)
(* handlers of the Streamlit page (src/app.py).                            *)
(*                                                                         *)
(* Numbers.  The program computes on Python floats.  A number is modelled  *)
(* as an exact rational <<n, d>> in lowest terms with d > 0, so the model  *)
(* is the program run in exact arithmetic (what the source computes when   *)
(* it is handed fractions.Fraction arguments): binary64 rounding, NaN and  *)
(* infinities are outside the model.  Python's None is the pair <<0, 0>>.  *)
(* An operation Python refuses (a division by zero, arithmetic on None)    *)
(* yields a marker pair with d = 0 that the enclosing function turns into  *)
(* the exception Python raises.                                            *)
(***************************************************************************)
EXTENDS Integers, FiniteSets, Sequences, TLC

(***************************************************************************)
(* Bounds of the input space.                                              *)
(***************************************************************************)
\* capital values (E, D) range over -1, 0 .. MaxCapital and 100
MaxCapital == 1
\* cost rates (Ke, Kd) range over -1/20, k/20 for k in 0 .. MaxRateStep, and 3/50
MaxRateStep == 2
\* tax rates range over -1/4, 1/4, 5/4 and 0 .. MaxTax
MaxTax == 1
\* known WACCs range over k/20 for k in 0 .. MaxWaccStep, and 9/200
MaxWaccStep == 4

(***************************************************************************)
(* Exact rational arithmetic.                                              *)
(***************************************************************************)
Abs(x) == IF x < 0 THEN -x ELSE x

RECURSIVE GCD(_, _)
GCD(a, b) == IF b = 0 THEN a ELSE GCD(b, a % b)

\* the rational n/d (d # 0) in lowest terms with a positive denominator
Rat(n, d) ==
    LET g == GCD(Abs(n), Abs(d))
        s == IF d < 0 THEN -1 ELSE 1
    IN  <<s * (n \div g), s * (d \div g)>>

None == <<0, 0>>
ZeroDivisionError == <<1, 0>>
TypeError == <<2, 0>>

Zero == <<0, 1>>
One == <<1, 1>>

IsNum(x) == x[2] # 0

\* the marker an operation on a non-number propagates (None gives TypeError)
Bad(a, b) ==
    IF ~IsNum(a) THEN (IF a = None THEN TypeError ELSE a)
    ELSE IF b = None THEN TypeError ELSE b

Add(a, b) ==
    IF ~IsNum(a) \/ ~IsNum(b) THEN Bad(a, b)
    ELSE LET g == GCD(a[2], b[2])
         IN  Rat(a[1] * (b[2] \div g) + b[1] * (a[2] \div g), a[2] * (b[2] \div g))

Neg(a) == IF ~IsNum(a) THEN Bad(a, a) ELSE <<-a[1], a[2]>>

Sub(a, b) == Add(a, Neg(b))

Mul(a, b) ==
    IF ~IsNum(a) \/ ~IsNum(b) THEN Bad(a, b)
    ELSE LET g1 == GCD(Abs(a[1]), b[2])
             g2 == GCD(Abs(b[1]), a[2])
         IN  Rat((a[1] \div g1) * (b[1] \div g2), (a[2] \div g2) * (b[2] \div g1))

\* Python's a / b: ZeroDivisionError when b is zero
Div(a, b) ==
    IF ~IsNum(a) \/ ~IsNum(b) THEN Bad(a, b)
    ELSE IF b[1] = 0 THEN ZeroDivisionError
    ELSE Mul(a, Rat(b[2], b[1]))

Lt(a, b) == a[1] * b[2] < b[1] * a[2]
Leq(a, b) == a[1] * b[2] <= b[1] * a[2]

\* Python's chained comparison 0 <= x <= 1
InUnit(x) == Leq(Zero, x) /\ Leq(x, One)

(***************************************************************************)
(* Results.  A call either returns a record (status "ok") or raises; every *)
(* raise of the module is a ValueError, told apart by its message.         *)
(***************************************************************************)
NoResult == [status |-> "none"]

Raise(exc, msg) == [status |-> "error", exc |-> exc, msg |-> msg]

\* the exception a marker value stands for
RaiseMarker(v) ==
    IF v = ZeroDivisionError THEN Raise("ZeroDivisionError", "division by zero")
    ELSE Raise("TypeError", "unsupported operand")


\* the messages of the module's raise statements
MsgProvideED == "Equity (E) and Debt (D) must be provided."
MsgNonNegative == "Equity and Debt must be non-negative."
MsgTotalZero == "E + D cannot be zero."
MsgTaxRange == "Tax rate must be within [0, 1]."
MsgExactlyFour == "Provide exactly four inputs (one missing)."
MsgKeZeroWeight == "Cannot solve Ke when equity weight is zero."
MsgKdZeroDenom == "Cannot solve Kd: denominator zero (check D and T)."
MsgTZeroDenom == "Cannot solve T: denominator zero (check D and Kd)."
MsgCannotInfer == "Cannot infer weights: Ke == Kd*(1-T)."
\* the message also carries the implied wE, formatted; the text is not modelled
MsgInconsistent == "Inconsistent inputs: implied wE not in [0,1]."
MsgProvideD == "To solve E, provide D."
MsgDebtWeightZero == "Debt weight zero; E not identifiable."
MsgProvideE == "To solve D, provide E."
MsgEquityWeightZero == "Equity weight zero; D not identifiable."
MsgUnexpected == "Unexpected solver state."

(***************************************************************************)
(* Each function of the module follows, preceded by the faulty variants    *)
(* the properties are tested against.                                      *)
(***************************************************************************)
\* fault: only E is checked for its sign
weights_NoDebtSignCheck(E, D) ==
    IF E = None \/ D = None THEN Raise("ValueError", MsgProvideED)
    ELSE IF Lt(E, Zero) THEN Raise("ValueError", MsgNonNegative)
    ELSE LET total == Add(E, D) IN
         IF total = Zero THEN Raise("ValueError", MsgTotalZero)
         ELSE LET wE == Div(E, total)
                  wD == Sub(One, wE)
              IN  IF ~IsNum(wE) THEN RaiseMarker(wE)
                  ELSE [status |-> "ok", wE |-> wE, wD |-> wD]

(***************************************************************************)
(* _weights(E, D): the capital weights.                                    *)
(***************************************************************************)
_weights(E, D) ==
    IF E = None \/ D = None THEN Raise("ValueError", MsgProvideED)
    ELSE IF Lt(E, Zero) \/ Lt(D, Zero) THEN Raise("ValueError", MsgNonNegative)
    ELSE LET total == Add(E, D) IN
         IF total = Zero THEN Raise("ValueError", MsgTotalZero)
         ELSE LET wE == Div(E, total)
                  wD == Sub(One, wE)
              IN  IF ~IsNum(wE) THEN RaiseMarker(wE)
                  ELSE [status |-> "ok", wE |-> wE, wD |-> wD]

\* fault: the tax shield (1 - tax_rate) is left out of the debt term
calculate_wacc_NoTaxShield(equity_value, debt_value, cost_of_equity, cost_of_debt, tax_rate) ==
    LET w == _weights(equity_value, debt_value) IN
    IF w.status # "ok" THEN w
    ELSE IF tax_rate = None THEN RaiseMarker(TypeError)
    ELSE IF ~InUnit(tax_rate) THEN Raise("ValueError", MsgTaxRange)
    ELSE LET wacc == Add(Mul(w.wE, cost_of_equity), Mul(w.wD, cost_of_debt))
         IN  IF ~IsNum(wacc) THEN RaiseMarker(wacc)
             ELSE [status |-> "ok",
                   equity_value |-> equity_value,
                   debt_value |-> debt_value,
                   cost_of_equity |-> cost_of_equity,
                   cost_of_debt |-> cost_of_debt,
                   tax_rate |-> tax_rate,
                   equity_weight |-> w.wE,
                   debt_weight |-> w.wD,
                   wacc |-> wacc]

(***************************************************************************)
(* calculate_wacc: the forward computation.                                *)
(***************************************************************************)
calculate_wacc(equity_value, debt_value, cost_of_equity, cost_of_debt, tax_rate) ==
    LET w == _weights(equity_value, debt_value) IN
    IF w.status # "ok" THEN w
    ELSE IF tax_rate = None THEN RaiseMarker(TypeError)
    ELSE IF ~InUnit(tax_rate) THEN Raise("ValueError", MsgTaxRange)
    ELSE LET wacc == Add(Mul(w.wE, cost_of_equity),
                         Mul(Mul(w.wD, cost_of_debt), Sub(One, tax_rate)))
         IN  IF ~IsNum(wacc) THEN RaiseMarker(wacc)
             ELSE [status |-> "ok",
                   equity_value |-> equity_value,
                   debt_value |-> debt_value,
                   cost_of_equity |-> cost_of_equity,
                   cost_of_debt |-> cost_of_debt,
                   tax_rate |-> tax_rate,
                   equity_weight |-> w.wE,
                   debt_weight |-> w.wD,
                   wacc |-> wacc]

(***************************************************************************)
(* solve_missing: the forensic back-solver.                                *)
(***************************************************************************)
\* a return statement of solve_missing; a value Python could not compute raises
Return(miss, value, wE, wD) ==
    IF ~IsNum(value) THEN RaiseMarker(value)
    ELSE [status |-> "ok", missing |-> miss, value |-> value, wE |-> wE, wD |-> wD]

\* the branch miss == "cost_of_equity"
SolveKe(wacc, equity_value, debt_value, cost_of_debt, tax_rate) ==
    LET w == _weights(equity_value, debt_value) IN
    IF w.status # "ok" THEN w
    ELSE IF w.wE = Zero THEN Raise("ValueError", MsgKeZeroWeight)
    ELSE LET Ke == Div(Sub(wacc, Mul(Mul(w.wD, cost_of_debt), Sub(One, tax_rate))), w.wE)
         IN  Return("cost_of_equity", Ke, w.wE, w.wD)

\* fault: the guard looks at wD alone, not at wD * (1 - tax_rate)
SolveKd_GuardWeightOnly(wacc, equity_value, debt_value, cost_of_equity, tax_rate) ==
    LET w == _weights(equity_value, debt_value) IN
    IF w.status # "ok" THEN w
    ELSE LET denom == Mul(w.wD, Sub(One, tax_rate)) IN
         IF w.wD = Zero THEN Raise("ValueError", MsgKdZeroDenom)
         ELSE LET Kd == Div(Sub(wacc, Mul(w.wE, cost_of_equity)), denom)
              IN  Return("cost_of_debt", Kd, w.wE, w.wD)

\* the branch miss == "cost_of_debt"
SolveKd(wacc, equity_value, debt_value, cost_of_equity, tax_rate) ==
    LET w == _weights(equity_value, debt_value) IN
    IF w.status # "ok" THEN w
    ELSE LET denom == Mul(w.wD, Sub(One, tax_rate)) IN
         IF denom = Zero THEN Raise("ValueError", MsgKdZeroDenom)
         ELSE LET Kd == Div(Sub(wacc, Mul(w.wE, cost_of_equity)), denom)
              IN  Return("cost_of_debt", Kd, w.wE, w.wD)

\* fault: the quotient is returned, not its complement to 1
SolveT_NoComplement(wacc, equity_value, debt_value, cost_of_equity, cost_of_debt) ==
    LET w == _weights(equity_value, debt_value) IN
    IF w.status # "ok" THEN w
    ELSE LET denom == Mul(w.wD, cost_of_debt) IN
         IF denom = Zero THEN Raise("ValueError", MsgTZeroDenom)
         ELSE LET T == Div(Sub(wacc, Mul(w.wE, cost_of_equity)), denom)
              IN  Return("tax_rate", T, w.wE, w.wD)

\* variant: the solved T is range-checked as calculate_wacc checks its tax_rate
SolveT_RangeChecked(wacc, equity_value, debt_value, cost_of_equity, cost_of_debt) ==
    LET w == _weights(equity_value, debt_value) IN
    IF w.status # "ok" THEN w
    ELSE LET denom == Mul(w.wD, cost_of_debt) IN
         IF denom = Zero THEN Raise("ValueError", MsgTZeroDenom)
         ELSE LET T == Sub(One, Div(Sub(wacc, Mul(w.wE, cost_of_equity)), denom))
              IN  IF IsNum(T) /\ ~InUnit(T) THEN Raise("ValueError", MsgTaxRange)
                  ELSE Return("tax_rate", T, w.wE, w.wD)

\* the branch miss == "tax_rate"
SolveT(wacc, equity_value, debt_value, cost_of_equity, cost_of_debt) ==
    LET w == _weights(equity_value, debt_value) IN
    IF w.status # "ok" THEN w
    ELSE LET denom == Mul(w.wD, cost_of_debt) IN
         IF denom = Zero THEN Raise("ValueError", MsgTZeroDenom)
         ELSE LET T == Sub(One, Div(Sub(wacc, Mul(w.wE, cost_of_equity)), denom))
              IN  Return("tax_rate", T, w.wE, w.wD)

\* fault: the inferred wE is not range-checked
SolveCapital_NoRangeCheck(miss, wacc, equity_value, debt_value, cost_of_equity, cost_of_debt, tax_rate) ==
    LET A == cost_of_equity
        B == Mul(cost_of_debt, Sub(One, tax_rate))
        denom == Sub(A, B)
    IN  IF denom = Zero THEN Raise("ValueError", MsgCannotInfer)
        ELSE LET wE == Div(Sub(wacc, B), denom) IN
             IF ~IsNum(wE) THEN RaiseMarker(wE)
             ELSE LET wD == Sub(One, wE) IN
                  IF miss = "equity_value"
                  THEN IF debt_value = None THEN Raise("ValueError", MsgProvideD)
                       ELSE IF wD = Zero THEN Raise("ValueError", MsgDebtWeightZero)
                       ELSE LET E == Mul(Div(wE, wD), debt_value)
                            IN  Return(miss, E, wE, wD)
                  ELSE IF equity_value = None THEN Raise("ValueError", MsgProvideE)
                       ELSE IF wE = Zero THEN Raise("ValueError", MsgEquityWeightZero)
                       ELSE LET D == Mul(Div(wD, wE), equity_value)
                            IN  Return(miss, D, wE, wD)

\* fault: the range check is strict, so it fires before the zero-weight checks
SolveCapital_StrictRange(miss, wacc, equity_value, debt_value, cost_of_equity, cost_of_debt, tax_rate) ==
    LET A == cost_of_equity
        B == Mul(cost_of_debt, Sub(One, tax_rate))
        denom == Sub(A, B)
    IN  IF denom = Zero THEN Raise("ValueError", MsgCannotInfer)
        ELSE LET wE == Div(Sub(wacc, B), denom) IN
             IF ~IsNum(wE) THEN RaiseMarker(wE)
             ELSE IF ~(Lt(Zero, wE) /\ Lt(wE, One)) THEN Raise("ValueError", MsgInconsistent)
             ELSE LET wD == Sub(One, wE) IN
                  IF miss = "equity_value"
                  THEN IF debt_value = None THEN Raise("ValueError", MsgProvideD)
                       ELSE IF wD = Zero THEN Raise("ValueError", MsgDebtWeightZero)
                       ELSE LET E == Mul(Div(wE, wD), debt_value)
                            IN  Return(miss, E, wE, wD)
                  ELSE IF equity_value = None THEN Raise("ValueError", MsgProvideE)
                       ELSE IF wE = Zero THEN Raise("ValueError", MsgEquityWeightZero)
                       ELSE LET D == Mul(Div(wD, wE), equity_value)
                            IN  Return(miss, D, wE, wD)

\* the branch miss in ("equity_value", "debt_value")
SolveCapital(miss, wacc, equity_value, debt_value, cost_of_equity, cost_of_debt, tax_rate) ==
    LET A == cost_of_equity
        B == Mul(cost_of_debt, Sub(One, tax_rate))
        denom == Sub(A, B)
    IN  IF denom = Zero THEN Raise("ValueError", MsgCannotInfer)
        ELSE LET wE == Div(Sub(wacc, B), denom) IN
             IF ~IsNum(wE) THEN RaiseMarker(wE)
             ELSE IF ~InUnit(wE) THEN Raise("ValueError", MsgInconsistent)
             ELSE LET wD == Sub(One, wE) IN
                  IF miss = "equity_value"
                  THEN IF debt_value = None THEN Raise("ValueError", MsgProvideD)
                       ELSE IF wD = Zero THEN Raise("ValueError", MsgDebtWeightZero)
                       ELSE LET E == Mul(Div(wE, wD), debt_value)
                            IN  Return(miss, E, wE, wD)
                  ELSE IF equity_value = None THEN Raise("ValueError", MsgProvideE)
                       ELSE IF wE = Zero THEN Raise("ValueError", MsgEquityWeightZero)
                       ELSE LET D == Mul(Div(wD, wE), equity_value)
                            IN  Return(miss, D, wE, wD)

\* the keys of params, in the order of the dict
ParamNames == <<"equity_value", "debt_value", "cost_of_equity", "cost_of_debt", "tax_rate">>

\* missing = [k for k, v in params.items() if v is None]
Missing(params) ==
    SelectSeq(ParamNames, LAMBDA k : params[k] = None)

\* the dispatch on miss, lines 113-167
Dispatch(miss, wacc, p) ==
    IF miss = "cost_of_equity"
    THEN SolveKe(wacc, p.equity_value, p.debt_value, p.cost_of_debt, p.tax_rate)
    ELSE IF miss = "cost_of_debt"
    THEN SolveKd(wacc, p.equity_value, p.debt_value, p.cost_of_equity, p.tax_rate)
    ELSE IF miss = "tax_rate"
    THEN SolveT(wacc, p.equity_value, p.debt_value, p.cost_of_equity, p.cost_of_debt)
    ELSE IF miss \in {"equity_value", "debt_value"}
    THEN SolveCapital(miss, wacc, p.equity_value, p.debt_value,
                      p.cost_of_equity, p.cost_of_debt, p.tax_rate)
    ELSE Raise("ValueError", MsgUnexpected)

\* fault: only a call with nothing missing is refused
solve_missing_AnyMissing(wacc, equity_value, debt_value, cost_of_equity, cost_of_debt, tax_rate) ==
    LET params == [equity_value |-> equity_value,
                   debt_value |-> debt_value,
                   cost_of_equity |-> cost_of_equity,
                   cost_of_debt |-> cost_of_debt,
                   tax_rate |-> tax_rate]
        missing == Missing(params)
    IN  IF Len(missing) = 0 THEN Raise("ValueError", MsgExactlyFour)
        ELSE Dispatch(missing[1], wacc, params)

solve_missing(wacc, equity_value, debt_value, cost_of_equity, cost_of_debt, tax_rate) ==
    LET params == [equity_value |-> equity_value,
                   debt_value |-> debt_value,
                   cost_of_equity |-> cost_of_equity,
                   cost_of_debt |-> cost_of_debt,
                   tax_rate |-> tax_rate]
        missing == Missing(params)
    IN  IF Len(missing) # 1 THEN Raise("ValueError", MsgExactlyFour)
        ELSE Dispatch(missing[1], wacc, params)

(***************************************************************************)
(* The state: the arguments a caller holds, the result of each call made   *)
(* so far, and what the page shows.                                        *)
(***************************************************************************)
VARIABLES
    inp,     \* the caller's values: wacc and the five inputs (a number or None)
    phase,   \* which call was made last
    wts,     \* the result of _weights
    fwd,     \* the result of calculate_wacc
    rev,     \* the result of solve_missing
    nulled,  \* the field passed as None to a solve_missing that follows a calculate_wacc
    ui       \* what the page rendered

vars == <<inp, phase, wts, fwd, rev, nulled, ui>>

Capitals ==
    {None, Rat(-1, 1), Rat(100, 1)} \cup {Rat(k, 1) : k \in 0..MaxCapital}

Rates ==
    {None, Rat(-1, 20), Rat(3, 50)} \cup {Rat(k, 20) : k \in 0..MaxRateStep}

Taxes ==
    {None, Rat(-1, 4), Rat(1, 4), Rat(5, 4)} \cup {Rat(k, 1) : k \in 0..MaxTax}

Waccs ==
    {Rat(9, 200)} \cup {Rat(k, 20) : k \in 0..MaxWaccStep}

Init ==
    /\ inp \in [wacc : Waccs, equity_value : Capitals, debt_value : Capitals,
                cost_of_equity : Rates, cost_of_debt : Rates, tax_rate : Taxes]
    /\ phase = "start"
    /\ wts = NoResult
    /\ fwd = NoResult
    /\ rev = NoResult
    /\ nulled = "none"
    /\ ui = [shown |-> "nothing"]

\* a direct call of _weights(E, D)
Weights ==
    /\ phase = "start"
    /\ wts' = _weights(inp.equity_value, inp.debt_value)
    /\ phase' = "weights"
    /\ UNCHANGED <<inp, fwd, rev, nulled, ui>>

\* a direct call of calculate_wacc on the five inputs
Calculate ==
    /\ phase = "start"
    /\ fwd' = calculate_wacc(inp.equity_value, inp.debt_value, inp.cost_of_equity,
                             inp.cost_of_debt, inp.tax_rate)
    /\ phase' = "forward"
    /\ UNCHANGED <<inp, wts, rev, nulled, ui>>

\* a direct call of solve_missing on the known WACC and the five inputs
SolveMissing ==
    /\ phase = "start"
    /\ rev' = solve_missing(inp.wacc, inp.equity_value, inp.debt_value,
                            inp.cost_of_equity, inp.cost_of_debt, inp.tax_rate)
    /\ phase' = "reverse"
    /\ UNCHANGED <<inp, wts, fwd, nulled, ui>>

\* the record r with field k passed as None
Without(r, k) == [r EXCEPT ![k] = None]

\* the record r with field k set to v
With(r, k, v) == [r EXCEPT ![k] = v]

\* after a calculate_wacc that returned: solve_missing on its wacc, one field absent
SolveAfterCalculate ==
    /\ phase = "forward"
    /\ fwd.status = "ok"
    /\ \E k \in {ParamNames[i] : i \in 1..Len(ParamNames)} :
         LET a == Without(inp, k) IN
         /\ rev' = solve_missing(fwd.wacc, a.equity_value, a.debt_value,
                                 a.cost_of_equity, a.cost_of_debt, a.tax_rate)
         /\ nulled' = k
    /\ phase' = "roundtrip"
    /\ UNCHANGED <<inp, wts, fwd, ui>>

\* after a solve_missing that returned: calculate_wacc with the solved value filled in
CalculateAfterSolve ==
    /\ phase = "reverse"
    /\ rev.status = "ok"
    /\ LET a == With(inp, rev.missing, rev.value) IN
         fwd' = calculate_wacc(a.equity_value, a.debt_value, a.cost_of_equity,
                               a.cost_of_debt, a.tax_rate)
    /\ phase' = "reforward"
    /\ UNCHANGED <<inp, wts, rev, nulled, ui>>

(***************************************************************************)
(* The page (src/app.py).  A number_input yields a number within its       *)
(* min_value and max_value; the capital inputs' max_value of 1e12 is above *)
(* every capital value of the model.                                       *)
(***************************************************************************)
RateMaxValue == 5

InWidget(x, lo, hi) == IsNum(x) /\ Leq(lo, x) /\ Leq(x, hi)

\* the button "Calculate WACC"
ForwardButton ==
    /\ phase = "start"
    /\ IsNum(inp.equity_value) /\ Leq(Zero, inp.equity_value)
    /\ IsNum(inp.debt_value) /\ Leq(Zero, inp.debt_value)
    /\ InWidget(inp.cost_of_equity, Zero, Rat(RateMaxValue, 1))
    /\ InWidget(inp.cost_of_debt, Zero, Rat(RateMaxValue, 1))
    /\ InWidget(inp.tax_rate, Zero, One)
    /\ LET res == calculate_wacc(inp.equity_value, inp.debt_value, inp.cost_of_equity,
                                 inp.cost_of_debt, inp.tax_rate)
       IN  /\ fwd' = res
           /\ ui' = IF res.status = "ok"
                    THEN [shown |-> "metrics", wE |-> res.equity_weight,
                          wD |-> res.debt_weight, wacc |-> res.wacc]
                    ELSE [shown |-> "error", message |-> res.msg]
    /\ phase' = "page_forward"
    /\ UNCHANGED <<inp, wts, rev, nulled>>

\* maybe_input: None for the selected key, else a number within the widget's range
MaybeInput(missing, key, x, lo, hi) ==
    IF missing = key THEN x = None ELSE InWidget(x, lo, hi)

\* the button "Solve missing value"
ForensicButton ==
    /\ phase = "start"
    /\ InWidget(inp.wacc, Zero, Rat(RateMaxValue, 1))
    /\ \E missing \in {"cost_of_equity", "cost_of_debt", "tax_rate",
                       "equity_value", "debt_value"} :
         /\ IF missing = "equity_value" THEN inp.equity_value = None
            ELSE IsNum(inp.equity_value) /\ Leq(Zero, inp.equity_value)
         /\ IF missing = "debt_value" THEN inp.debt_value = None
            ELSE IsNum(inp.debt_value) /\ Leq(Zero, inp.debt_value)
         /\ MaybeInput(missing, "cost_of_equity", inp.cost_of_equity, Zero, Rat(RateMaxValue, 1))
         /\ MaybeInput(missing, "cost_of_debt", inp.cost_of_debt, Zero, Rat(RateMaxValue, 1))
         /\ MaybeInput(missing, "tax_rate", inp.tax_rate, Zero, One)
    /\ LET out == solve_missing(inp.wacc, inp.equity_value, inp.debt_value,
                                inp.cost_of_equity, inp.cost_of_debt, inp.tax_rate)
       IN  /\ rev' = out
           /\ ui' = IF out.status = "ok"
                    THEN [shown |-> "success", missing |-> out.missing, value |-> out.value,
                          wE |-> out.wE, wD |-> out.wD, warning |-> ~InUnit(out.wE)]
                    ELSE [shown |-> "error", message |-> out.msg]
    /\ phase' = "page_forensic"
    /\ UNCHANGED <<inp, wts, fwd, nulled>>

Next ==
    \/ Weights
    \/ Calculate
    \/ SolveMissing
    \/ SolveAfterCalculate
    \/ CalculateAfterSolve
    \/ ForwardButton
    \/ ForensicButton

Spec == Init /\ [][Next]_vars

(***************************************************************************)
(* Vocabulary of the properties.                                           *)
(***************************************************************************)
FieldNames == {ParamNames[i] : i \in 1..Len(ParamNames)}

\* the fields of an argument record that are None
Absent(a) == {k \in FieldNames : a[k] = None}

\* solve_missing has been called, and with which arguments
RevCalled == phase \in {"reverse", "reforward", "roundtrip", "page_forensic"}

RevArgs ==
    IF phase = "roundtrip" THEN [Without(inp, nulled) EXCEPT !.wacc = fwd.wacc] ELSE inp

\* the error kinds of the design, read off the message of the ValueError raised
InvalidInputMsgs ==
    {MsgProvideED, MsgNonNegative, MsgTotalZero, MsgTaxRange, MsgExactlyFour,
     MsgProvideD, MsgProvideE}

NotIdentifiableMsgs ==
    {MsgKeZeroWeight, MsgKdZeroDenom, MsgTZeroDenom, MsgCannotInfer,
     MsgDebtWeightZero, MsgEquityWeightZero}

ErrorKind(r) ==
    IF r.status # "error" THEN "none"
    ELSE IF r.exc # "ValueError" THEN r.exc
    ELSE IF r.msg \in InvalidInputMsgs THEN "InvalidInput"
    ELSE IF r.msg \in NotIdentifiableMsgs THEN "NotIdentifiable"
    ELSE IF r.msg = MsgInconsistent THEN "InconsistentInputs"
    ELSE "other"

\* equityValue >= 0, debtValue >= 0, their sum > 0, rates >= 0, taxRate in [0,1]
ValidCapitalInputs(a) ==
    /\ \A k \in FieldNames : IsNum(a[k])
    /\ Leq(Zero, a.equity_value) /\ Leq(Zero, a.debt_value)
    /\ Lt(Zero, Add(a.equity_value, a.debt_value))
    /\ Leq(Zero, a.cost_of_equity) /\ Leq(Zero, a.cost_of_debt)
    /\ InUnit(a.tax_rate)

\* Kd(1 - T)
AfterTaxKd(a) == Mul(a.cost_of_debt, Sub(One, a.tax_rate))

\* the weight the E and D branches infer: (WACC - Kd(1-T)) / (Ke - Kd(1-T))
InferredWE(a) ==
    Div(Sub(a.wacc, AfterTaxKd(a)), Sub(a.cost_of_equity, AfterTaxKd(a)))

\* the five inputs of the design's forward example
IsExample(a) ==
    /\ a.equity_value = Zero /\ a.debt_value = Rat(100, 1)
    /\ a.cost_of_equity = Rat(1, 10) /\ a.cost_of_debt = Rat(3, 50)
    /\ a.tax_rate = Rat(1, 4)

(***************************************************************************)
(* C1.  Round trip: calculate_wacc on valid inputs, then solve_missing on  *)
(* its wacc with one field absent.                                         *)
(***************************************************************************)
\* the inputs from which field k cannot be recovered
NotRecoverable(a, k) ==
    CASE k = "cost_of_equity" -> a.equity_value = Zero
      [] k = "cost_of_debt" -> a.debt_value = Zero \/ a.tax_rate = One
      [] k = "tax_rate" -> a.debt_value = Zero \/ a.cost_of_debt = Zero
      [] k = "equity_value" -> a.cost_of_equity = AfterTaxKd(a) \/ a.debt_value = Zero
      [] k = "debt_value" -> a.cost_of_equity = AfterTaxKd(a) \/ a.equity_value = Zero

\* C1 as stated: for valid inputs and each of the five fields, the round trip
\* succeeds and returns the original value of the field.
C1_RoundTripAlways ==
    (phase = "roundtrip" /\ ValidCapitalInputs(inp))
        => (rev.status = "ok" /\ rev.value = inp[nulled])

\* C1 amended: in exact arithmetic, for valid inputs the round trip returns the
\* original value of the absent field, except where the field cannot be recovered
\* from the others, and there it fails with NotIdentifiable.
C1_RoundTrip ==
    (phase = "roundtrip" /\ ValidCapitalInputs(inp))
        => IF NotRecoverable(inp, nulled)
           THEN ErrorKind(rev) = "NotIdentifiable"
           ELSE rev.status = "ok" /\ rev.missing = nulled /\ rev.value = inp[nulled]

C1_Witness ==
    /\ phase = "roundtrip"
    /\ ValidCapitalInputs(inp)
    /\ nulled = "equity_value"
    /\ inp.equity_value = One /\ inp.debt_value = Rat(100, 1)
    /\ inp.cost_of_equity = Rat(1, 10) /\ inp.cost_of_debt = Rat(3, 50)
    /\ inp.tax_rate = Rat(1, 4)
    /\ rev.status = "ok" /\ rev.value = One

(***************************************************************************)
(* C2.  solve_missing refuses any call that does not leave exactly one of  *)
(* the five fields absent, before it looks at the values; with exactly one *)
(* absent, a result names that field.                                      *)
(***************************************************************************)
C2_ExactlyOneAbsent ==
    RevCalled =>
        LET n == Cardinality(Absent(RevArgs)) IN
        /\ n # 1 => rev = Raise("ValueError", MsgExactlyFour)
        /\ n = 1 => /\ rev.status = "error" => rev.msg # MsgExactlyFour
                    /\ rev.status = "ok" => rev.missing \in Absent(RevArgs)

\* two fields absent and a negative capital value: still "exactly four"
C2_Witness ==
    /\ phase = "reverse"
    /\ Absent(inp) = {"equity_value", "tax_rate"}
    /\ Lt(inp.debt_value, Zero)
    /\ ErrorKind(rev) = "InvalidInput" /\ rev.msg = MsgExactlyFour

(***************************************************************************)
(* C3.  _weights fails with InvalidInput on an absent or negative value or *)
(* a zero total, and otherwise returns wE = E/(E+D), wD = 1 - wE, with     *)
(* wE + wD = 1 and both in [0,1].                                          *)
(***************************************************************************)
C3_Weights ==
    phase = "weights" =>
        LET E == inp.equity_value
            D == inp.debt_value
        IN  IF E = None \/ D = None \/ Lt(E, Zero) \/ Lt(D, Zero) \/ Add(E, D) = Zero
            THEN ErrorKind(wts) = "InvalidInput"
            ELSE /\ wts.status = "ok"
                 /\ Mul(wts.wE, Add(E, D)) = E
                 /\ wts.wD = Sub(One, wts.wE)
                 /\ Add(wts.wE, wts.wD) = One
                 /\ InUnit(wts.wE) /\ InUnit(wts.wD)

C3_Witness ==
    /\ phase = "weights"
    /\ inp.equity_value = One /\ inp.debt_value = Rat(100, 1)
    /\ wts.status = "ok"
    /\ wts.wE = Rat(1, 101) /\ wts.wD = Rat(100, 101)

(***************************************************************************)
(* C4.  calculate_wacc on five numbers fails with InvalidInput when        *)
(* _weights fails or the tax rate is outside [0,1]; otherwise it echoes    *)
(* the inputs with the weights of _weights and                             *)
(* wacc = wE*Ke + wD*Kd*(1 - T), stated here multiplied out by E + D.      *)
(* The design's example gives wE = 0, wD = 1, wacc = 0.045.                *)
(***************************************************************************)
C4_Calculate ==
    (/\ phase \in {"forward", "page_forward"}
     /\ IsNum(inp.cost_of_equity) /\ IsNum(inp.cost_of_debt) /\ IsNum(inp.tax_rate))
        => LET E == inp.equity_value
               D == inp.debt_value
               w == _weights(E, D)
           IN  /\ IF w.status # "ok" \/ ~InUnit(inp.tax_rate)
                  THEN ErrorKind(fwd) = "InvalidInput"
                  ELSE /\ fwd.status = "ok"
                       /\ \A k \in FieldNames : fwd[k] = inp[k]
                       /\ fwd.equity_weight = w.wE /\ fwd.debt_weight = w.wD
                       /\ Mul(fwd.wacc, Add(E, D))
                            = Add(Mul(E, inp.cost_of_equity),
                                  Mul(Mul(D, inp.cost_of_debt), Sub(One, inp.tax_rate)))
               /\ IsExample(inp)
                    => /\ fwd.status = "ok"
                       /\ fwd.equity_weight = Zero /\ fwd.debt_weight = One
                       /\ fwd.wacc = Rat(9, 200)

C4_Witness ==
    /\ phase = "forward"
    /\ IsExample(inp)
    /\ fwd.status = "ok" /\ fwd.wacc = Rat(9, 200)

(***************************************************************************)
(* C5.  With equity_value or debt_value absent, an inferred wE outside     *)
(* [0,1] fails with InconsistentInputs; so every result of solve_missing   *)
(* carries wE in [0,1] and wD = 1 - wE, and the page's warning about wE    *)
(* never shows.                                                            *)
(***************************************************************************)
C5_WeightInRange ==
    /\ RevCalled =>
         LET a == RevArgs IN
         /\ (/\ Cardinality(Absent(a)) = 1
             /\ Absent(a) \subseteq {"equity_value", "debt_value"}
             /\ a.cost_of_equity # AfterTaxKd(a)
             /\ ~InUnit(InferredWE(a)))
                => ErrorKind(rev) = "InconsistentInputs"
         /\ rev.status = "ok" => InUnit(rev.wE) /\ rev.wD = Sub(One, rev.wE)
    /\ ui.shown = "success" => ~ui.warning

\* an inferred wE of 1.5 is refused
C5_Witness ==
    /\ phase = "reverse"
    /\ Absent(inp) = {"equity_value"}
    /\ inp.cost_of_equity # AfterTaxKd(inp)
    /\ InferredWE(inp) = Rat(3, 2)
    /\ ErrorKind(rev) = "InconsistentInputs"

(***************************************************************************)
(* C6.  Every zero denominator fails with NotIdentifiable, and             *)
(* solve_missing never divides by zero.                                    *)
(***************************************************************************)
C6_ZeroDenominators ==
    RevCalled =>
        LET a == RevArgs
            w == _weights(a.equity_value, a.debt_value)
        IN  /\ ErrorKind(rev) # "ZeroDivisionError"
            /\ (Absent(a) = {"cost_of_equity"} /\ w.status = "ok" /\ w.wE = Zero)
                 => ErrorKind(rev) = "NotIdentifiable"
            /\ (/\ Absent(a) = {"cost_of_debt"} /\ w.status = "ok"
                /\ Mul(w.wD, Sub(One, a.tax_rate)) = Zero)
                 => ErrorKind(rev) = "NotIdentifiable"
            /\ (/\ Absent(a) = {"tax_rate"} /\ w.status = "ok"
                /\ Mul(w.wD, a.cost_of_debt) = Zero)
                 => ErrorKind(rev) = "NotIdentifiable"
            /\ (/\ Absent(a) \in {{"equity_value"}, {"debt_value"}}
                /\ a.cost_of_equity = AfterTaxKd(a))
                 => ErrorKind(rev) = "NotIdentifiable"
            /\ (/\ Absent(a) = {"equity_value"}
                /\ a.cost_of_equity # AfterTaxKd(a)
                /\ Sub(One, InferredWE(a)) = Zero)
                 => ErrorKind(rev) = "NotIdentifiable"
            /\ (/\ Absent(a) = {"debt_value"}
                /\ a.cost_of_equity # AfterTaxKd(a)
                /\ InferredWE(a) = Zero)
                 => ErrorKind(rev) = "NotIdentifiable"

\* cost_of_debt absent, debt present and a tax rate of 1: wD*(1-T) = 0
C6_Witness ==
    /\ phase = "reverse"
    /\ Absent(inp) = {"cost_of_debt"}
    /\ Lt(Zero, inp.equity_value) /\ Lt(Zero, inp.debt_value)
    /\ inp.tax_rate = One
    /\ rev.status = "error" /\ rev.msg = MsgKdZeroDenom

(***************************************************************************)
(* C7.  solve_missing fails with InvalidInput whenever a supplied capital  *)
(* value is negative, the supplied capital values sum to zero, or the      *)
(* supplied tax rate is outside [0,1], whichever field is absent.          *)
(***************************************************************************)
SuppliedInvalid(a) ==
    LET caps == {k \in {"equity_value", "debt_value"} : a[k] # None} IN
    \/ \E k \in caps : Lt(a[k], Zero)
    \/ caps # {} /\ \A k \in caps : a[k] = Zero
    \/ caps = {"equity_value", "debt_value"} /\ Add(a.equity_value, a.debt_value) = Zero
    \/ a.tax_rate # None /\ ~InUnit(a.tax_rate)

\* C7: a call whose supplied capital values or tax rate are invalid fails with
\* InvalidInput, whichever field is absent.
C7_SuppliedValuesValidated ==
    (RevCalled /\ SuppliedInvalid(RevArgs)) => ErrorKind(rev) = "InvalidInput"

(***************************************************************************)
(* C8.  With tax_rate absent and wD*Kd # 0, solve_missing returns          *)
(* T = 1 - (WACC - wE*Ke)/(wD*Kd) whatever its range (stated here          *)
(* multiplied out by wD*Kd), and calculate_wacc refuses a T so solved that *)
(* lies outside [0,1].                                                     *)
(***************************************************************************)
C8_TaxRateUnchecked ==
    /\ RevCalled =>
         LET a == RevArgs
             w == _weights(a.equity_value, a.debt_value)
         IN  (Absent(a) = {"tax_rate"} /\ w.status = "ok")
               => LET denom == Mul(w.wD, a.cost_of_debt) IN
                  denom # Zero
                    => /\ rev.status = "ok"
                       /\ rev.missing = "tax_rate"
                       /\ Mul(rev.value, denom)
                            = Sub(denom, Sub(a.wacc, Mul(w.wE, a.cost_of_equity)))
    /\ (phase = "reforward" /\ rev.missing = "tax_rate" /\ ~InUnit(rev.value))
         => fwd = Raise("ValueError", MsgTaxRange)

\* valid supplied inputs, a solved T below 0, and calculate_wacc refusing it
C8_Witness ==
    /\ phase = "reforward"
    /\ Leq(Zero, inp.equity_value) /\ Leq(Zero, inp.debt_value)
    /\ Leq(Zero, inp.cost_of_equity) /\ Leq(Zero, inp.cost_of_debt)
    /\ rev.status = "ok" /\ rev.missing = "tax_rate"
    /\ Lt(rev.value, Zero)
    /\ fwd = Raise("ValueError", MsgTaxRange)

(***************************************************************************)
(* C9.  With equity_value or debt_value absent the checks come in a fixed  *)
(* order and the first that fails decides the error: Ke = Kd(1-T), then    *)
(* the inferred wE outside [0,1], then a zero wD (equity_value absent) or  *)
(* a zero wE (debt_value absent).  An inferred wE of exactly 1 with        *)
(* equity_value absent, or of exactly 0 with debt_value absent, is         *)
(* NotIdentifiable.                                                        *)
(***************************************************************************)
C9_CheckOrder ==
    (RevCalled /\ Absent(RevArgs) \in {{"equity_value"}, {"debt_value"}})
        => LET a == RevArgs IN
           IF a.cost_of_equity = AfterTaxKd(a)
           THEN rev = Raise("ValueError", MsgCannotInfer)
           ELSE IF ~InUnit(InferredWE(a))
           THEN rev = Raise("ValueError", MsgInconsistent)
           ELSE IF Absent(a) = {"equity_value"} /\ InferredWE(a) = One
           THEN rev = Raise("ValueError", MsgDebtWeightZero)
                  /\ ErrorKind(rev) = "NotIdentifiable"
           ELSE IF Absent(a) = {"debt_value"} /\ InferredWE(a) = Zero
           THEN rev = Raise("ValueError", MsgEquityWeightZero)
                  /\ ErrorKind(rev) = "NotIdentifiable"
           ELSE rev.status = "ok"

\* equity_value absent and an inferred wE of exactly 1
C9_Witness ==
    /\ phase = "reverse"
    /\ Absent(inp) = {"equity_value"}
    /\ inp.cost_of_equity # AfterTaxKd(inp)
    /\ InferredWE(inp) = One
    /\ rev = Raise("ValueError", MsgDebtWeightZero)

(***************************************************************************)
(* C10.  After every solve_missing that returns, calculate_wacc on the     *)
(* inputs completed with the solved value succeeds and gives the known     *)
(* wacc and the weights of the reverse result.                             *)
(***************************************************************************)
C10_ReverseThenForward ==
    phase = "reforward"
        => /\ fwd.status = "ok"
           /\ fwd.wacc = inp.wacc
           /\ fwd.equity_weight = rev.wE /\ fwd.debt_weight = rev.wD

=============================================================================
